---- MODULE Spec2Model ----
(***************************************************************************)
(* DungeonMice: the geometric regions (regions.py), the zone occupancy     *)
(* logic (logic.py) and the contour selection of the mouse tracker         *)
(* (tracker.py).                                                           *)
(*                                                                         *)
(* Numbers.  Timestamps are whole seconds.  Coordinates and radii are      *)
(* fixed-point numbers with Scale steps per pixel, so that a value v       *)
(* stands for v / Scale pixels; Px(n) is the whole pixel n.  Python's None *)
(* is the empty tuple, and an optional value x that is present is <<x>>    *)
(* (a position is the pair <<x, y>>).                                      *)
(***************************************************************************)
EXTENDS Integers, Sequences, FiniteSets, TLC

VARIABLES
    regions,    \* EventLogic.regions: the list held by the RegionManager
    states,     \* EventLogic.states: region_id -> ZoneState
    calls,      \* the update(position, t) calls made so far, in order
    min_area,   \* MouseTracker.min_area
    cnts,       \* the contours findContours gave to the last locate call
    located,    \* the outcome of the last locate call
    prev_pos,   \* MouseTracker.prev_pos (None while the attribute is not set)
    built       \* the last region constructor call and its outcome

vars == <<regions, states, calls, min_area, cnts, located, prev_pos, built>>

None == <<>>

Scale == 2
Px(n) == n * Scale

Min2(a, b) == IF a <= b THEN a ELSE b
Max2(a, b) == IF a >= b THEN a ELSE b

(***************************************************************************)
(* regions.py                                                              *)
(***************************************************************************)

\* float(v): value preserving on the fixed-point values used here.
ToFloat(v) == v

\* np.array(..., dtype=np.int32) on a coordinate: the fraction is dropped,
\* rounding toward zero.
ToInt32(v) == IF v >= 0 THEN (v \div Scale) * Scale ELSE -(((-v) \div Scale) * Scale)

Raised(error) == [ok |-> FALSE, error |-> error, region |-> None]
Returned(region) == [ok |-> TRUE, error |-> "", region |-> <<region>>]

\* PolygonRegion.__init__ with the `< 3` test off by one.
PolygonRegionTwoPoints(region_id, points) ==
    LET pts == [i \in 1..Len(points) |->
                   <<ToInt32(points[i][1]), ToInt32(points[i][2])>>]
    IN IF Len(pts) < 2
       THEN Raised("ValueError")
       ELSE Returned([kind |-> "polygon", region_id |-> region_id, points |-> pts])

\* PolygonRegion.__init__: points is a list of (x, y) pairs, so shape[0]
\* after reshape((-1, 1, 2)) is the number of pairs.
PolygonRegion(region_id, points) ==
    LET pts == [i \in 1..Len(points) |->
                   <<ToInt32(points[i][1]), ToInt32(points[i][2])>>]
    IN IF Len(pts) < 3
       THEN Raised("ValueError")
       ELSE Returned([kind |-> "polygon", region_id |-> region_id, points |-> pts])

\* CircleRegion.__init__
CircleRegion(region_id, center, radius) ==
    LET c == <<ToFloat(center[1]), ToFloat(center[2])>>
        r == ToFloat(radius)
    IN IF r <= 0
       THEN Raised("ValueError")
       ELSE Returned([kind |-> "circle", region_id |-> region_id,
                      center |-> c, radius |-> r])

\* z component of (b - a) x (p - a)
Cross(a, b, p) == (b[1] - a[1]) * (p[2] - a[2]) - (p[1] - a[1]) * (b[2] - a[2])

OnSegment(a, b, p) ==
    /\ Cross(a, b, p) = 0
    /\ Min2(a[1], b[1]) <= p[1] /\ p[1] <= Max2(a[1], b[1])
    /\ Min2(a[2], b[2]) <= p[2] /\ p[2] <= Max2(a[2], b[2])

\* cv2.pointPolygonTest(contour, pt, False): +1 inside, 0 on an edge,
\* -1 outside (even-odd rule over the closed contour).
PointPolygonTest(pts, p) ==
    LET n == Len(pts)
        nxt(i) == pts[(i % n) + 1]
        crosses(i) ==
            \/ pts[i][2] <= p[2] /\ nxt(i)[2] > p[2] /\ Cross(pts[i], nxt(i), p) > 0
            \/ pts[i][2] > p[2] /\ nxt(i)[2] <= p[2] /\ Cross(pts[i], nxt(i), p) < 0
    IN IF \E i \in 1..n : OnSegment(pts[i], nxt(i), p) THEN 0
       ELSE IF Cardinality({i \in 1..n : crosses(i)}) % 2 = 1 THEN 1
       ELSE -1

\* PolygonRegion.contains leaving the boundary out.
PolygonContainsStrict(region, point) ==
    LET pt == <<ToFloat(point[1]), ToFloat(point[2])>>
    IN PointPolygonTest(region.points, pt) > 0

\* PolygonRegion.contains
PolygonContains(region, point) ==
    LET pt == <<ToFloat(point[1]), ToFloat(point[2])>>
    IN PointPolygonTest(region.points, pt) >= 0

\* CircleRegion.contains leaving the boundary out.
CircleContainsStrict(region, point) ==
    LET dx == point[1] - region.center[1]
        dy == point[2] - region.center[2]
    IN dx * dx + dy * dy < region.radius * region.radius

\* CircleRegion.contains
CircleContains(region, point) ==
    LET dx == point[1] - region.center[1]
        dy == point[2] - region.center[2]
    IN dx * dx + dy * dy <= region.radius * region.radius

\* region.contains(point), dispatched on the class of the region
Contains(region, point) ==
    IF region.kind = "circle" THEN CircleContains(region, point)
    ELSE PolygonContains(region, point)

\* RegionManager.__init__: the list is stored as given
RegionManager(rs) == [regions |-> rs]

(***************************************************************************)
(* logic.py                                                                *)
(***************************************************************************)

\* ZoneState.__init__
ZoneState == [inside |-> FALSE, enter_time |-> None, total_time |-> 0, entries |-> 0]

\* EventLogic.__init__ creating a record for the first region only.
EventLogicFirstRegionOnly(region_manager) ==
    LET rs == region_manager.regions
    IN [regions |-> rs,
        states |-> [id \in {rs[1].region_id} |-> ZoneState]]

\* EventLogic.__init__: the dict comprehension keeps one record per
\* distinct region_id
EventLogic(region_manager) ==
    LET rs == region_manager.regions
    IN [regions |-> rs,
        states |-> [id \in {rs[i].region_id : i \in 1..Len(rs)} |-> ZoneState]]

\* The body of the loop with the exit branch forgetting to clear enter_time.
VisitKeepsEnterTime(state, inside_now, t) ==
    IF inside_now /\ ~state.inside
    THEN [state EXCEPT !.inside = TRUE, !.enter_time = <<t>>, !.entries = @ + 1]
    ELSE IF ~inside_now /\ state.inside
    THEN [state EXCEPT !.inside = FALSE,
                       !.total_time = @ + (t - state.enter_time[1])]
    ELSE state

\* The body of the loop with the elapsed time subtracted the wrong way round.
VisitSwappedElapsed(state, inside_now, t) ==
    IF inside_now /\ ~state.inside
    THEN [state EXCEPT !.inside = TRUE, !.enter_time = <<t>>, !.entries = @ + 1]
    ELSE IF ~inside_now /\ state.inside
    THEN [state EXCEPT !.inside = FALSE,
                       !.total_time = @ + (state.enter_time[1] - t),
                       !.enter_time = None]
    ELSE state

\* The body of the loop counting an entry on every frame spent inside.
VisitCountsEveryFrame(state, inside_now, t) ==
    IF inside_now /\ ~state.inside
    THEN [state EXCEPT !.inside = TRUE, !.enter_time = <<t>>, !.entries = @ + 1]
    ELSE IF inside_now /\ state.inside
    THEN [state EXCEPT !.entries = @ + 1]
    ELSE IF ~inside_now /\ state.inside
    THEN [state EXCEPT !.inside = FALSE,
                       !.total_time = @ + (t - state.enter_time[1]),
                       !.enter_time = None]
    ELSE state

\* The body of the loop stamping enter_time again on every frame inside.
VisitRestampsEnterTime(state, inside_now, t) ==
    IF inside_now /\ ~state.inside
    THEN [state EXCEPT !.inside = TRUE, !.enter_time = <<t>>, !.entries = @ + 1]
    ELSE IF inside_now /\ state.inside
    THEN [state EXCEPT !.enter_time = <<t>>]
    ELSE IF ~inside_now /\ state.inside
    THEN [state EXCEPT !.inside = FALSE,
                       !.total_time = @ + (t - state.enter_time[1]),
                       !.enter_time = None]
    ELSE state

\* The body of the loop refusing to accrue a negative elapsed time.
VisitClampsElapsed(state, inside_now, t) ==
    IF inside_now /\ ~state.inside
    THEN [state EXCEPT !.inside = TRUE, !.enter_time = <<t>>, !.entries = @ + 1]
    ELSE IF ~inside_now /\ state.inside
    THEN [state EXCEPT !.inside = FALSE,
                       !.total_time = @ + Max2(0, t - state.enter_time[1]),
                       !.enter_time = None]
    ELSE state

\* EventLogic.update, the body of the loop for one region: the record of
\* the region after the entry branch, the exit branch or neither.
Visit(state, inside_now, t) ==
    IF inside_now /\ ~state.inside
    THEN [state EXCEPT !.inside = TRUE, !.enter_time = <<t>>, !.entries = @ + 1]
    ELSE IF ~inside_now /\ state.inside
    THEN [state EXCEPT !.inside = FALSE,
                       !.total_time = @ + (t - state.enter_time[1]),
                       !.enter_time = None]
    ELSE state

\* The loop leaving at the first region that contains the position.
RECURSIVE ForEachRegionFirstHit(_, _, _, _, _)
ForEachRegionFirstHit(rs, st, position, t, i) ==
    IF i > Len(rs) THEN st
    ELSE LET id == rs[i].region_id
             inside_now == Contains(rs[i], position)
             next == [st EXCEPT ![id] = Visit(st[id], inside_now, t)]
         IN IF inside_now THEN next
            ELSE ForEachRegionFirstHit(rs, next, position, t, i + 1)

\* EventLogic.update, `for region in self.regions`, from the i-th region on:
\* each iteration reads and writes self.states[region.region_id].
RECURSIVE ForEachRegion(_, _, _, _, _)
ForEachRegion(rs, st, position, t, i) ==
    IF i > Len(rs) THEN st
    ELSE LET id == rs[i].region_id
             inside_now == Contains(rs[i], position)
         IN ForEachRegion(rs, [st EXCEPT ![id] = Visit(st[id], inside_now, t)],
                          position, t, i + 1)

\* update without the early return: an absent position is in no region.
UpdateStatesNoEarlyReturn(rs, st, position, t) ==
    IF position = None
    THEN [id \in DOMAIN st |-> Visit(st[id], FALSE, t)]
    ELSE ForEachRegion(rs, st, position, t, 1)

\* EventLogic.update(position, t): the states after the call
UpdateStates(rs, st, position, t) ==
    IF position = None THEN st
    ELSE ForEachRegion(rs, st, position, t, 1)

(***************************************************************************)
(* tracker.py                                                              *)
(***************************************************************************)

NoiseFloor == 5

\* cv2.contourArea(c)
ContourArea(c) == c.area

\* cv2.moments(c): m00 of a contour is its area
Moments(c) == [m00 |-> c.area, m10 |-> c.m10, m01 |-> c.m01]

\* int(a / b) for a >= 0, b > 0
IntDiv(a, b) == a \div b

\* max(cnts, key=cv2.contourArea): the first contour of maximal area
MaxByArea(cs) ==
    cs[CHOOSE i \in 1..Len(cs) :
          /\ \A j \in 1..Len(cs) : ContourArea(cs[j]) <= ContourArea(cs[i])
          /\ \A j \in 1..(i - 1) : ContourArea(cs[j]) < ContourArea(cs[i])]

LocateRaised(error) == [raised |-> TRUE, error |-> error, position |-> None, mask |-> None]
LocateReturned(position) ==
    [raised |-> FALSE, error |-> "", position |-> position, mask |-> <<"fgmask">>]

\* MouseTracker.locate from the contours of the cleaned mask on: what the
\* call returns or raises.
Locate(cs, minArea) ==
    IF cs = <<>> THEN LocateReturned(None)
    ELSE LET AboveFloor(c) == ContourArea(c) > NoiseFloor
             kept == IF \A i \in 1..Len(cs) : ContourArea(cs[i]) < minArea
                     THEN SelectSeq(cs, AboveFloor)
                     ELSE cs
         IN IF kept = <<>>
            THEN LocateRaised("ValueError")   \* max() of an empty list
            ELSE LET cnt == MaxByArea(kept)
                     M == Moments(cnt)
                 IN IF ContourArea(cnt) < minArea THEN LocateReturned(None)
                    ELSE IF M.m00 = 0 THEN LocateReturned(None)
                    ELSE LocateReturned(<<IntDiv(M.m10, M.m00), IntDiv(M.m01, M.m00)>>)

(***************************************************************************)
(* The inputs                                                              *)
(***************************************************************************)

MaxCalls == 4
MaxContours == 2
MaxVertices == 4

ExperimentMinArea == 100

Center == <<Px(100), Px(100)>>
Far == <<Px(200), Px(200)>>

Positions == {None, Center, Far}

\* The timestamps a call may carry, in any order
Times == {0, 1, 2, 3}

\* One circle; a circle, a polygon around both positions and a second
\* circle; two circles under one region_id.
OneCircle == <<CircleRegion("center", Center, Px(10)).region[1]>>
Overlapping ==
    <<CircleRegion("center", Center, Px(10)).region[1],
      PolygonRegion("box", <<<<Px(90), Px(90)>>, <<Px(210), Px(90)>>,
                             <<Px(210), Px(210)>>, <<Px(90), Px(210)>>>>).region[1],
      CircleRegion("far", Far, Px(5)).region[1]>>
SharedId ==
    <<CircleRegion("zone", Center, Px(10)).region[1],
      CircleRegion("zone", Far, Px(10)).region[1]>>

RegionSets == {OneCircle, Overlapping, SharedId}

MinAreas == {0, ExperimentMinArea}
Areas == {0, 3, 6, 150}
Contours ==
    {[area |-> a, m10 |-> a * x + (a \div 2), m01 |-> a * y] :
        a \in Areas, x \in {100, 200}, y \in {100}}

RECURSIVE SeqsUpTo(_, _)
SeqsUpTo(S, n) ==
    IF n = 0 THEN {<<>>}
    ELSE LET shorter == SeqsUpTo(S, n - 1)
         IN shorter \cup {Append(q, x) : q \in shorter, x \in S}

Vertices == {<<Px(0), Px(0)>>, <<Px(10), Px(0)>>, <<Px(0), Px(10)>>,
             <<Px(10) + 1, Px(10) + 1>>}
Radii == {-Px(1), 0, 1, Px(10)}

\* The points around Center that contains is asked about: whole pixels up
\* to 10 away on each axis, and one step further.
Offsets == {-(Px(10) + 1), -Px(10), -Px(8), -Px(6), 0, Px(6), Px(8), Px(10), Px(10) + 1}
Grid == {<<Center[1] + dx, Center[2] + dy>> : dx \in Offsets, dy \in Offsets}

(***************************************************************************)
(* The state machine                                                       *)
(***************************************************************************)

InitEngine(rs) ==
    LET logic == EventLogic(RegionManager(rs))
    IN /\ regions = logic.regions
       /\ states = logic.states
       /\ calls = <<>>

InitTracker(m) ==
    /\ min_area = m
    /\ cnts = <<>>
    /\ located = None
    /\ prev_pos = None

\* logic = EventLogic(regions) over any of the region sets
Init ==
    /\ \E rs \in RegionSets : InitEngine(rs)
    /\ InitTracker(ExperimentMinArea)
    /\ built = None

\* logic.update(position, t)
update(position, t) ==
    /\ Len(calls) < MaxCalls
    /\ states' = UpdateStates(regions, states, position, t)
    /\ calls' = Append(calls, [position |-> position, t |-> t])
    /\ UNCHANGED <<regions, min_area, cnts, located, prev_pos, built>>

Next == \E position \in Positions, t \in Times : update(position, t)

Spec == Init /\ [][Next]_vars

\* The same engine fed timestamps from a shorter range, still in any order
VisitTimes == {0, 1, 2}

NextVisits == \E position \in Positions, t \in VisitTimes : update(position, t)

SpecVisits == Init /\ [][NextVisits]_vars

\* tracker = MouseTracker(min_area=...)
InitLocate ==
    /\ InitEngine(OneCircle)
    /\ \E m \in MinAreas : InitTracker(m)
    /\ built = None

\* tracker.locate(gray) on a frame whose cleaned mask has the contours cs
locate(cs) ==
    /\ cnts' = cs
    /\ located' = <<Locate(cs, min_area)>>
    /\ prev_pos' = IF located'[1].position # None THEN located'[1].position ELSE prev_pos
    /\ UNCHANGED <<regions, states, calls, min_area, built>>

NextLocate == \E cs \in SeqsUpTo(Contours, MaxContours) : locate(cs)

SpecLocate == InitLocate /\ [][NextLocate]_vars

InitRegions ==
    /\ InitEngine(OneCircle)
    /\ InitTracker(ExperimentMinArea)
    /\ built = None

\* PolygonRegion(region_id, points)
NewPolygon(region_id, points) ==
    /\ built' = <<[cls |-> "PolygonRegion", points |-> points, radius |-> 0,
                   result |-> PolygonRegion(region_id, points)]>>
    /\ UNCHANGED <<regions, states, calls, min_area, cnts, located, prev_pos>>

\* CircleRegion(region_id, center, radius)
NewCircle(region_id, center, radius) ==
    /\ built' = <<[cls |-> "CircleRegion", points |-> <<center>>, radius |-> radius,
                   result |-> CircleRegion(region_id, center, radius)]>>
    /\ UNCHANGED <<regions, states, calls, min_area, cnts, located, prev_pos>>

NextRegions ==
    \/ \E points \in SeqsUpTo(Vertices, MaxVertices) : NewPolygon("roi", points)
    \/ \E radius \in Radii : NewCircle("roi", Center, radius)

SpecRegions == InitRegions /\ [][NextRegions]_vars

(***************************************************************************)
(* Properties                                                              *)
(***************************************************************************)

Last(q) == q[Len(q)]

UniqueIds(rs) ==
    \A i, j \in 1..Len(rs) : rs[i].region_id = rs[j].region_id => i = j

\* The timestamps of the calls never decrease.
NonDecreasing(cs) == \A i \in 1..(Len(cs) - 1) : cs[i].t <= cs[i + 1].t

\* C1: in every state reached by update calls, the record of every region
\* has an enter_time exactly when its inside flag is set.
EnterTimeIffInside ==
    \A id \in DOMAIN states : (states[id].enter_time # None) <=> states[id].inside

\* C1 witness: a region has been entered and left again after some time,
\* and its enter_time is cleared.
EnteredAndLeft ==
    \E id \in DOMAIN states :
        /\ states[id].entries >= 1
        /\ ~states[id].inside
        /\ states[id].enter_time = None
        /\ states[id].total_time > 0

\* C2: a call of update with an absent position, whatever its timestamp,
\* leaves every field of every record as it was.
AbsentPositionChangesNothing ==
    [][(calls' # calls /\ Last(calls').position = None) => states' = states]_vars

\* C2 witness: the last call had no position while a region was occupied.
AbsentWhileInside ==
    /\ calls # <<>>
    /\ Last(calls).position = None
    /\ \E id \in DOMAIN states : states[id].inside

\* C3: as long as the timestamps of the calls do not decrease, no call
\* lowers the total_time or the entries of any record.
TotalsNeverDecrease ==
    [][NonDecreasing(calls') =>
          \A id \in DOMAIN states :
              /\ states'[id].total_time >= states[id].total_time
              /\ states'[id].entries >= states[id].entries]_vars

\* C3 witness: under non-decreasing timestamps a record has counted two
\* entries and accrued time.
GrownUnderNonDecreasing ==
    /\ NonDecreasing(calls)
    /\ \E id \in DOMAIN states :
           states[id].entries >= 2 /\ states[id].total_time > 0

\* C4: a call of update that repeats the position and timestamp of the
\* call before it changes no record.
RepeatedCallChangesNothing ==
    [][(calls # <<>> /\ calls' = Append(calls, Last(calls))) => states' = states]_vars

\* C5: a call raises the entries of a record only by moving it from
\* outside to inside, and then by one; a call whose position is in a
\* region whose record is already inside leaves the entries alone.
EntriesOnlyOnEntry ==
    [][calls' # calls =>
          /\ \A id \in DOMAIN states :
                 states'[id].entries # states[id].entries =>
                     /\ ~states[id].inside
                     /\ states'[id].inside
                     /\ states'[id].entries = states[id].entries + 1
          /\ \A i \in 1..Len(regions) :
                 ( /\ Last(calls').position # None
                   /\ Contains(regions[i], Last(calls').position)
                   /\ states[regions[i].region_id].inside )
                 => states'[regions[i].region_id].entries
                        = states[regions[i].region_id].entries]_vars

Scenario ==
    <<[position |-> Center, t |-> 0], [position |-> Center, t |-> 1],
      [position |-> Far, t |-> 2], [position |-> Center, t |-> 3]>>

\* C6: one circle of radius 10 at (100,100), fed (100,100) at 0 and 1,
\* (200,200) at 2 and (100,100) at 3, ends inside with two entries, entered
\* at 3, and a total time of 2.
ScenarioOutcome ==
    (regions = OneCircle /\ calls = Scenario) =>
        states["center"] =
            [inside |-> TRUE, enter_time |-> <<3>>, total_time |-> 2, entries |-> 2]

\* C6 witness: the four calls of the scenario have been made on the circle.
ScenarioPlayed == regions = OneCircle /\ calls = Scenario

\* C7: with unique region ids, after a call with a position every record's
\* inside flag is the containment of that position in its region, so that
\* overlapping regions holding the position are all inside.
InsideIsContainment ==
    (UniqueIds(regions) /\ calls # <<>> /\ Last(calls).position # None) =>
        \A i \in 1..Len(regions) :
            states[regions[i].region_id].inside
                = Contains(regions[i], Last(calls).position)

\* C7 witness: one call put the position in the circle and in the polygon
\* around it, and both records are inside.
BothOverlappingInside ==
    /\ regions = Overlapping
    /\ Len(calls) = 1
    /\ Last(calls).position = Center
    /\ Contains(regions[1], Center) /\ Contains(regions[2], Center)
    /\ states["center"].inside /\ states["box"].inside
    /\ ~states["far"].inside

\* C8: locate never raises: whatever the contours, it returns a position
\* or None together with the mask.
LocateNeverRaises ==
    located # None => (~located[1].raised /\ located[1].mask # None)

\* C9: a frame whose largest contour is above the noise floor, below
\* min_area and of non-zero m00 yields a position; not found is reported
\* only without contours, with the largest contour below both thresholds,
\* or with m00 zero.
SmallContourStillLocated ==
    (located # None /\ cnts # <<>>) =>
        LET largest == MaxByArea(cnts)
            small == ContourArea(largest) < min_area
            noise == ContourArea(largest) <= NoiseFloor
        IN /\ (small /\ ~noise /\ Moments(largest).m00 # 0)
                  => (~located[1].raised /\ located[1].position # None)
           /\ (~located[1].raised /\ located[1].position = None)
                  => ((small /\ noise) \/ Moments(largest).m00 = 0)

InvalidGeometry(call) ==
    \/ call.cls = "PolygonRegion" /\ Len(call.points) < 3
    \/ call.cls = "CircleRegion" /\ call.radius <= 0

\* C10 as stated: a polygon of fewer than 3 vertices and a circle of
\* radius <= 0 are rejected with a GeometryError and yield no region.
RejectedWithGeometryError ==
    (built # None /\ InvalidGeometry(built[1])) =>
        /\ ~built[1].result.ok
        /\ built[1].result.error = "GeometryError"
        /\ built[1].result.region = None

\* C10: a polygon of fewer than 3 vertices and a circle of radius <= 0 are
\* rejected with a ValueError and yield no region.
RejectedWithValueError ==
    (built # None /\ InvalidGeometry(built[1])) =>
        /\ ~built[1].result.ok
        /\ built[1].result.error = "ValueError"
        /\ built[1].result.region = None

\* C10 witness: a polygon of two vertices has been refused.
TwoVertexPolygonRefused ==
    /\ built # None
    /\ built[1].cls = "PolygonRegion"
    /\ Len(built[1].points) = 2
    /\ ~built[1].result.ok

RegionIds(rs) == {rs[i].region_id : i \in 1..Len(rs)}

\* C11: the keys of states are exactly the region ids, before and after
\* any calls of update, and before the first call every record is outside,
\* without enter_time, with total_time 0 and entries 0.
OneRecordPerRegionId ==
    /\ DOMAIN states = RegionIds(regions)
    /\ calls = <<>> =>
           \A id \in DOMAIN states :
               states[id] = [inside |-> FALSE, enter_time |-> None,
                             total_time |-> 0, entries |-> 0]

\* C11 witness: after MaxCalls calls on the three regions the records have
\* changed and the keys are still the three ids.
KeysKeptAfterCalls ==
    /\ regions = Overlapping
    /\ Len(calls) = MaxCalls
    /\ DOMAIN states = {"center", "box", "far"}
    /\ states["center"].entries >= 1
    /\ states["far"].entries >= 1

SquaredDistance(p, q) == (p[1] - q[1]) * (p[1] - q[1]) + (p[2] - q[2]) * (p[2] - q[2])

\* C12: a circle holds a point exactly when the squared distance to the
\* center is at most the squared radius: it holds its center and every
\* point at distance R, and no point further than R.
CircleIsClosedDisc ==
    (built # None /\ built[1].cls = "CircleRegion" /\ built[1].result.ok) =>
        LET circle == built[1].result.region[1]
            c == built[1].points[1]
            R == built[1].radius
        IN /\ CircleContains(circle, c)
           /\ \A p \in Grid :
                  /\ SquaredDistance(p, c) = R * R => CircleContains(circle, p)
                  /\ SquaredDistance(p, c) > R * R => ~CircleContains(circle, p)
                  /\ CircleContains(circle, p) <=> SquaredDistance(p, c) <= R * R

\* C12 witness: the circle of radius 10 has been built; the point 6 right
\* and 8 down of the center, at distance 10, is in it and the point one
\* step beyond the radius is not.
CircleBoundaryReached ==
    /\ built # None
    /\ built[1].cls = "CircleRegion"
    /\ built[1].result.ok
    /\ built[1].radius = Px(10)
    /\ <<Center[1] + Px(6), Center[2] + Px(8)>> \in Grid
    /\ CircleContains(built[1].result.region[1], <<Center[1] + Px(6), Center[2] + Px(8)>>)
    /\ ~CircleContains(built[1].result.region[1], <<Center[1] + Px(10) + 1, Center[2]>>)

\* A coordinate that is a whole number of pixels
WholePixel(v) == v % Scale = 0

DistinctVertices(points) ==
    \A i, j \in 1..Len(points) : points[i] = points[j] => i = j

\* C13 as stated: a polygon built from 3 or more (distinct) vertices, of
\* integer or float coordinates, contains every vertex it was built from.
PolygonContainsItsVertices ==
    (built # None /\ built[1].cls = "PolygonRegion" /\ built[1].result.ok
        /\ DistinctVertices(built[1].points)) =>
        \A i \in 1..Len(built[1].points) :
            PolygonContains(built[1].result.region[1], built[1].points[i])

\* C13: a polygon built from 3 or more vertices contains every vertex it
\* was built from whose coordinates are integers.
PolygonContainsItsIntegerVertices ==
    (built # None /\ built[1].cls = "PolygonRegion" /\ built[1].result.ok) =>
        \A i \in 1..Len(built[1].points) :
            (WholePixel(built[1].points[i][1]) /\ WholePixel(built[1].points[i][2]))
                => PolygonContains(built[1].result.region[1], built[1].points[i])

\* C13 witness: the triangle (0,0), (10,0), (0,10) has been built and
\* contains its three vertices.
TriangleContainsVertices ==
    /\ built # None
    /\ built[1].cls = "PolygonRegion"
    /\ built[1].result.ok
    /\ built[1].points = <<<<Px(0), Px(0)>>, <<Px(10), Px(0)>>, <<Px(0), Px(10)>>>>
    /\ \A i \in 1..3 : PolygonContains(built[1].result.region[1], built[1].points[i])

\* What the record of id is shown by the calls cs, in order: for each call
\* with a position, for each region of that id in list order, whether the
\* region holds the position, and the timestamp of the call.
RECURSIVE Observations(_, _, _)
Observations(rs, id, cs) ==
    IF cs = <<>> THEN <<>>
    ELSE LET c == Last(cs)
             mine == SelectSeq([i \in 1..Len(rs) |-> i],
                               LAMBDA i : rs[i].region_id = id)
             seen == IF c.position = None THEN <<>>
                     ELSE [k \in 1..Len(mine) |->
                              [inside |-> Contains(rs[mine[k]], c.position), t |-> c.t]]
         IN Observations(rs, id, SubSeq(cs, 1, Len(cs) - 1)) \o seen

\* The k-th observation ends a visit: it is outside and the one before it,
\* or the start of the record for k = 1, is not.
EndsVisit(obs, k) == k > 1 /\ ~obs[k].inside /\ obs[k - 1].inside

\* The observation that began the visit ended by the k-th
VisitStart(obs, k) ==
    CHOOSE j \in 1..(k - 1) :
        /\ \A m \in j..(k - 1) : obs[m].inside
        /\ (j = 1 \/ ~obs[j - 1].inside)

\* The sum, over the visits ended among the first k observations, of the
\* time from the observation that began the visit to the one that ended it
RECURSIVE CompletedVisitsTime(_, _)
CompletedVisitsTime(obs, k) ==
    IF k = 0 THEN 0
    ELSE CompletedVisitsTime(obs, k - 1)
             + (IF EndsVisit(obs, k) THEN obs[k].t - obs[VisitStart(obs, k)].t ELSE 0)

\* C14: the total_time of every record is the sum, over the visits of its
\* region that have ended, of the timestamp of the call that ended the
\* visit minus the timestamp of the call that began it; a visit still open
\* adds nothing.
TotalTimeIsCompletedVisits ==
    \A id \in DOMAIN states :
        LET obs == Observations(regions, id, calls)
        IN states[id].total_time = CompletedVisitsTime(obs, Len(obs))

\* C14 witness: a region was visited from 0 to 2 and entered again; the
\* total is the 2 seconds of the first visit, the open visit adds nothing.
OneVisitDoneOneOpen ==
    /\ calls # <<>>
    /\ NonDecreasing(calls)
    /\ calls[1].t = 0
    /\ \E id \in DOMAIN states :
           /\ states[id].inside
           /\ states[id].entries = 2
           /\ states[id].total_time = 2

\* C15: the region set an engine is built on never holds two regions of
\* one region_id, so no two regions share a record.
RegionIdsAreUnique == UniqueIds(regions)

\* C16: a call whose timestamp is below the enter_time of a record it
\* exits is carried out like any other: the record goes on through the
\* exit branch and total_time drops by enter_time - t.
EarlierTimestampAccruesNegative ==
    [][calls' # calls =>
          \A i \in 1..Len(regions) :
              LET c == Last(calls')
                  id == regions[i].region_id
              IN ( /\ c.position # None
                   /\ states[id].inside
                   /\ ~Contains(regions[i], c.position)
                   /\ c.t < states[id].enter_time[1] )
                 => /\ states'[id].total_time
                           = states[id].total_time + (c.t - states[id].enter_time[1])
                    /\ states'[id].total_time < states[id].total_time
                    /\ (UniqueIds(regions) =>
                           ~states'[id].inside /\ states'[id].enter_time = None)]_vars

\* C16 witness: a region entered at 3 and left by a call stamped 0 has a
\* negative total_time.
NegativeTotalTime ==
    /\ Len(calls) >= 2
    /\ calls[Len(calls) - 1].t > Last(calls).t
    /\ \E id \in DOMAIN states : states[id].total_time < 0 /\ ~states[id].inside

\* The states of an engine built on the regions rs after the calls cs
RECURSIVE Replay(_, _)
Replay(rs, cs) ==
    IF cs = <<>> THEN EventLogic(RegionManager(rs)).states
    ELSE UpdateStates(rs, Replay(rs, SubSeq(cs, 1, Len(cs) - 1)),
                      Last(cs).position, Last(cs).t)

\* C17: with unique region ids, the record of every region is the record
\* an engine built on that region alone has after the same calls.
RegionsAreIndependent ==
    UniqueIds(regions) =>
        \A i \in 1..Len(regions) :
            states[regions[i].region_id]
                = Replay(<<regions[i]>>, calls)[regions[i].region_id]

\* C17 witness: after calls at both positions the three overlapping
\* regions hold three different records, each that of its region alone.
ThreeDifferentRecords ==
    /\ regions = Overlapping
    /\ Len(calls) >= 3
    /\ states["center"] # states["box"]
    /\ states["box"] # states["far"]
    /\ states["center"] # states["far"]
    /\ states["far"].entries >= 1
    /\ states["center"].total_time > 0
    /\ states["box"] = Replay(<<regions[2]>>, calls)["box"]

\* The number of visits ended among the first k observations
RECURSIVE VisitsEnded(_, _)
VisitsEnded(obs, k) ==
    IF k = 0 THEN 0
    ELSE VisitsEnded(obs, k - 1) + (IF EndsVisit(obs, k) THEN 1 ELSE 0)

\* C18: the entries of every record are the exits made so far, plus one
\* while the record is inside; so an inside record has at least one entry,
\* and a record without entries is outside with total_time 0.
EntriesAreExitsPlusInside ==
    \A id \in DOMAIN states :
        LET obs == Observations(regions, id, calls)
        IN /\ states[id].entries
                  = VisitsEnded(obs, Len(obs)) + (IF states[id].inside THEN 1 ELSE 0)
           /\ states[id].inside => states[id].entries >= 1
           /\ states[id].entries = 0 =>
                  (~states[id].inside /\ states[id].total_time = 0)

\* C18 witness: a record that has been left once and entered again: two
\* entries, one exit, inside.
SecondVisitOpen ==
    \E id \in DOMAIN states :
        LET obs == Observations(regions, id, calls)
        IN /\ states[id].inside
           /\ states[id].entries = 2
           /\ VisitsEnded(obs, Len(obs)) = 1

====
